---- MODULE Spec2Model ----
(***************************************************************************)
(* Retirement calculator (calculadora-aposentadoria): the projection and   *)
(* coverage engine of the React components in src/src/App.tsx (the main    *)
(* component, lines 299-509, and targetWealthBySWR of the second           *)
(* component, line 928) and src/unnamed/part_000 (an earlier variant of    *)
(* the same component, lines 28-167).                                      *)
(*                                                                         *)
(* Number model.  The code computes in IEEE doubles; the model computes in *)
(* integers on fixed grids:                                                *)
(*   money            thousands of BRL (3_000_000 BRL is 3000)             *)
(*   monthlySpend     1/SpendDen of the money unit (100_000 BRL is 1000)   *)
(*   annual rate      tenths of a percent (3.5 % is 35), see PctDen        *)
(*   monthly rate     1/RateDen (0.0028 is 28)                             *)
(*   lump month       halves of a month (month 12 is 24, 0.5 is 1)         *)
(*   ages             whole years                                          *)
(* A product W * (1 + r) is floored to the money grid; a quotient          *)
(* spend / rate is rounded up to it (so that "W >= quotient" is decided    *)
(* exactly for W on the grid), and so is a spend when it is withdrawn.     *)
(* Magnitudes beyond MaxNum are clipped to it.                             *)
(***************************************************************************)
EXTENDS Integers, Sequences, FiniteSets, TLC

VARIABLES age, retireAge, currentWealth, monthlySaving, monthlySpend,
          swrPct, accumRealReturn, retireRealReturn, showAdvanced,
          lumpSums, lump, pc, plan

inputs == <<age, retireAge, currentWealth, monthlySaving, monthlySpend,
            swrPct, accumRealReturn, retireRealReturn, showAdvanced,
            lumpSums, lump>>
vars == <<age, retireAge, currentWealth, monthlySaving, monthlySpend,
          swrPct, accumRealReturn, retireRealReturn, showAdvanced,
          lumpSums, lump, pc, plan>>

(***************************************************************************)
(* Grids and limits of the number model                                    *)
(***************************************************************************)
RateDen == 10000
PctDen == 1000
MonthDen == 2
SpendExp == 1
SpendDen == 10
MaxNum == 2000000000
Infinity == 2147483647
NaN == 0 - Infinity - 1
LoopBlock == 16

Max(a, b) == IF a >= b THEN a ELSE b
Min(a, b) == IF a <= b THEN a ELSE b
Clip(x) == Max(0 - MaxNum, Min(MaxNum, x))
DivUp(a, b) == 0 - ((0 - a) \div b)
Floor(h) == h \div MonthDen
IsFinite(x) == x # Infinity /\ x # 0 - Infinity /\ x # NaN
\* a + b and Math.max(a, b) of doubles: NaN if an operand is NaN
Plus(a, b) == IF a = NaN \/ b = NaN THEN NaN ELSE a + b
MathMax(a, b) == IF a = NaN \/ b = NaN THEN NaN ELSE Max(a, b)

(***************************************************************************)
(* Rate converter: (1 + annual/100)^(1/12) - 1, as the twelfth root on the *)
(* RateDen grid; below -100 % the base of the power is negative and the    *)
(* result is NaN.                                                          *)
(***************************************************************************)
MulFix(x, y) == (x * y) \div RateDen
Pow12(x) ==
  LET x2 == MulFix(x, x)
      x4 == MulFix(x2, x2)
      x8 == MulFix(x4, x4)
  IN MulFix(x8, x4)

RECURSIVE Root12Search(_, _, _)
Root12Search(y, lo, hi) ==
  IF hi - lo <= 1 THEN lo
  ELSE LET mid == (lo + hi) \div 2
       IN IF Pow12(mid) <= y THEN Root12Search(y, mid, hi)
                             ELSE Root12Search(y, lo, mid)

monthlyRateFromRealAnnual(realAnnualPct) ==
  IF realAnnualPct < 0 - PctDen THEN NaN
  ELSE Root12Search(RateDen + (realAnnualPct * RateDen) \div PctDen, 0, 12001) - RateDen

\* W * (1 + r) on the money grid: floor(W * (RateDen + r) / RateDen), the product
\* taken in two parts to stay within the integers of the model
Grow(W, r) ==
  IF W = NaN \/ r = NaN THEN NaN
  ELSE LET q == Clip(W) \div RateDen
           m == Clip(W) % RateDen
       IN Clip(q * (RateDen + r) + (m * (RateDen + r)) \div RateDen)

\* a monthly spend on the money grid
\* (Withdrawal_credited: the spend with the opposite sign)
Withdrawal_credited(spend) == 0 - DivUp(spend, SpendDen)
Withdrawal(spend) == DivUp(spend, SpendDen)

(***************************************************************************)
(* App.tsx: lump schedule (byMonth) and the two projectors                 *)
(***************************************************************************)
MapGet(byMonth, k) == IF k \in DOMAIN byMonth THEN byMonth[k] ELSE 0
MapAdd(byMonth, k, v) ==
  [j \in DOMAIN byMonth \cup {k} |-> IF j = k THEN MapGet(byMonth, k) + v ELSE byMonth[j]]

\* for (const ls of lumpSums) { m = max(0, min(months, floor(ls.month))); byMonth[m] += amount }
RECURSIVE byMonthClamped(_, _, _, _)
byMonthClamped(lumps, i, months, byMonth) ==
  IF i > Len(lumps) THEN byMonth
  ELSE LET m == Max(0, Min(months, Floor(lumps[i].month)))
       IN byMonthClamped(lumps, i + 1, months, MapAdd(byMonth, m, lumps[i].amount))

EmptyMap == [j \in {} |-> 0]

RECURSIVE projectToRetirementLoop(_, _, _, _, _, _, _)
projectToRetirementLoop(t, W, rows, monthlySav, months, monthlyRealReturn, byMonth) ==
  IF t > months THEN rows
  ELSE LET oneOff == MapGet(byMonth, t + 1)
       IN projectToRetirementLoop(t + 1,
                                  Plus(Grow(W, monthlyRealReturn), monthlySav + oneOff),
                                  Append(rows, [m |-> t, wealth |-> W]),
                                  monthlySav, months, monthlyRealReturn, byMonth)

\* (projectToRetirement_dropLate: months beyond the horizon keep their own key)
projectToRetirement_dropLate(curWealth, monthlySav, months, monthlyRealReturn, lumps) ==
  projectToRetirementLoop(0, curWealth, <<>>, monthlySav, months, monthlyRealReturn,
                          byMonthClamped(lumps, 1, MaxNum, EmptyMap))
projectToRetirement(curWealth, monthlySav, months, monthlyRealReturn, lumps) ==
  projectToRetirementLoop(0, curWealth, <<>>, monthlySav, months, monthlyRealReturn,
                          byMonthClamped(lumps, 1, months, EmptyMap))

\* the unclamped W of projectFullTo100 before each iteration t = 0..monthsTo100
RECURSIVE projectFullLoop(_, _, _, _)
projectFullLoop(t, W, ws, p) ==
  IF t > p.monthsTo100 THEN ws
  ELSE LET next == IF t < p.monthsToRetire
                   THEN Plus(Grow(W, p.monthlyAccumReturn),
                             p.monthlySaving + MapGet(p.byMonth, t + 1))
                   ELSE Plus(Grow(W, p.monthlyRetireReturn),
                             0 - Withdrawal(p.monthlySpend))
       IN projectFullLoop(t + 1, next, Append(ws, W), p)

\* (projectFullW_clampW: the loop with W itself floored at 0 after every update)
projectFullW_clampW(a, curWealth, mToRetire, monthlySav, mAccum, mRetire, spend, lumps) ==
  LET byMonth == byMonthClamped(lumps, 1, mToRetire, EmptyMap)
      RECURSIVE loop(_, _, _)
      loop(t, W, ws) ==
        IF t > Max(0, (100 - a) * 12) THEN ws
        ELSE loop(t + 1,
                  Max(0, IF t < mToRetire
                         THEN Grow(W, mAccum) + monthlySav + MapGet(byMonth, t + 1)
                         ELSE Grow(W, mRetire) - Withdrawal(spend)),
                  Append(ws, W))
  IN loop(0, curWealth, <<>>)
projectFullW(a, curWealth, mToRetire, monthlySav, mAccum, mRetire, spend, lumps) ==
  projectFullLoop(0, curWealth, <<>>,
                  [monthsTo100 |-> Max(0, (100 - a) * 12),
                   monthsToRetire |-> mToRetire,
                   monthlySaving |-> monthlySav,
                   monthlyAccumReturn |-> mAccum,
                   monthlyRetireReturn |-> mRetire,
                   monthlySpend |-> spend,
                   byMonth |-> byMonthClamped(lumps, 1, mToRetire, EmptyMap)])

\* (projectFullTo100_noFloor: the rows carry W itself)
projectFullTo100_noFloor(a, curWealth, mToRetire, monthlySav, mAccum, mRetire, spend, lumps) ==
  LET ws == projectFullW(a, curWealth, mToRetire, monthlySav, mAccum, mRetire, spend, lumps)
  IN [i \in 1..Len(ws) |-> [m |-> i - 1, wealth |-> ws[i]]]
projectFullTo100(a, curWealth, mToRetire, monthlySav, mAccum, mRetire, spend, lumps) ==
  LET ws == projectFullW(a, curWealth, mToRetire, monthlySav, mAccum, mRetire, spend, lumps)
  IN [i \in 1..Len(ws) |-> [m |-> i - 1, wealth |-> MathMax(0, ws[i])]]

(***************************************************************************)
(* App.tsx: derived values of the component (lines 404-498)                *)
(***************************************************************************)
monthsToRetire == Max(0, (retireAge - age) * 12)
monthsTo100 == Max(0, (100 - age) * 12)
monthlyAccum == monthlyRateFromRealAnnual(accumRealReturn)
monthlyRetire == monthlyRateFromRealAnnual(retireRealReturn)

\* x * 10^e for x >= 0, clipped to MaxNum: the quotient x / 1e-e
RECURSIVE TimesPow10(_, _)
TimesPow10(x, e) ==
  IF e = 0 THEN x
  ELSE IF x > MaxNum \div 10 THEN MaxNum
  ELSE TimesPow10(x * 10, e - 1)

\* Math.max(monthlyRetire, 1e-9): the floor 1e-9 is 10^-EpsExp
EpsExp == 9

\* monthlySpend / Math.max(monthlyRetire, 1e-9); Math.max keeps a NaN
targetWealthOf(spend, mRetire) ==
  IF mRetire = NaN THEN NaN
  ELSE IF mRetire >= 1 THEN DivUp(spend * RateDen, mRetire * SpendDen)
  ELSE TimesPow10(spend, EpsExp - SpendExp)

\* wealthAtRetire * monthlyRetire >= monthlySpend
\* (hasPerpetuityOf_strict: the comparison made strict)
hasPerpetuityOf_strict(W, mRetire, spend) == W * mRetire * SpendDen > spend * RateDen
hasPerpetuityOf(W, mRetire, spend) == W * mRetire * SpendDen >= spend * RateDen

\* Math.max(0, Math.min(100, (100 * wealthAtRetire) / Math.max(targetWealth, 1))),
\* floored to whole percents; Math.max(targetWealth, 1) is 1 BRL, below the money grid
progressPctOf(W, target) ==
  IF W <= 0 THEN 0
  ELSE IF target <= 0 \/ W >= target THEN 100
  ELSE IF W <= MaxNum \div 100 THEN (100 * W) \div target
  ELSE Min(100, W \div Max(1, target \div 100))

\* Math.pow(1 + monthlyAccum, monthsToRetire) on the grid 1 / RateDen^2 (the quotient
\* (pow - 1) / monthlyAccum magnifies the error of pow); a product of two such numbers
\* is taken in parts to stay within the integers of the model
MulWide(x, y) ==
  LET xh == x \div RateDen
      xl == x % RateDen
      yh == y \div RateDen
      yl == y % RateDen
  IN xh * yh + (xh * yl + xl * yh) \div RateDen + (xl * yl) \div (RateDen * RateDen)

RECURSIVE PowN(_, _)
PowN(x, n) == IF n = 0 THEN RateDen * RateDen ELSE MulWide(PowN(x, n - 1), x)

\* monthlyAccum > 0 ? (Math.pow(1 + monthlyAccum, n) - 1) / monthlyAccum : n, in 1/RateDen
annuityFactor(mAccum, n) ==
  IF mAccum > 0
  THEN (PowN((RateDen + mAccum) * RateDen, n) - RateDen * RateDen) \div mAccum
  ELSE n * RateDen

\* gap / f for f in 1/RateDen, rounded up to the money grid (a positive quotient of
\* doubles is positive), the product taken in two parts
DivByFactor(gap, f) ==
  Clip((gap \div f) * RateDen + DivUp((gap % f) * RateDen, f))

\* gap > 0 && monthsToRetire > 0 ? gap / Math.max(factor, 1) : 0
extraMonthlyNeeded_noGapTest(gap, n, mAccum) ==
  IF n > 0 THEN DivByFactor(gap, Max(annuityFactor(mAccum, n), RateDen)) ELSE 0
extraMonthlyNeededOf(gap, n, mAccum) ==
  IF gap > 0 /\ n > 0 THEN DivByFactor(gap, Max(annuityFactor(mAccum, n), RateDen)) ELSE 0

\* yearsOfRunway: Infinity, or the finite value in symbolic form
\*   "ratio": num / den years;  "log": -ln(num / den) / ln(1 + r / PctDen) years
\* (yearsOfRunway_noRatioGuard: the same without the test ratio <= 0)
yearsOfRunway_noRatioGuard(startingWealth, annualSpend, realReturnAnnual) ==
  IF annualSpend <= 0 THEN [kind |-> "Infinity"]
  ELSE IF realReturnAnnual = 0
       THEN [kind |-> "ratio", num |-> startingWealth * SpendDen, den |-> annualSpend]
  ELSE [kind |-> "log",
        num |-> annualSpend * PctDen - startingWealth * realReturnAnnual * SpendDen,
        den |-> annualSpend * PctDen, r |-> realReturnAnnual]
yearsOfRunway(startingWealth, annualSpend, realReturnAnnual) ==
  IF annualSpend <= 0 THEN [kind |-> "Infinity"]
  ELSE IF realReturnAnnual = 0
       THEN [kind |-> "ratio", num |-> startingWealth * SpendDen, den |-> annualSpend]
  ELSE LET num == annualSpend * PctDen - startingWealth * realReturnAnnual * SpendDen
           den == annualSpend * PctDen
       IN IF num <= 0 THEN [kind |-> "Infinity"]
          ELSE [kind |-> "log", num |-> num, den |-> den, r |-> realReturnAnnual]

RunwayIsInfinite(y) == y.kind = "Infinity"
\* sign of a finite runway: -ln(ratio) has the sign of (den - num), ln(1 + r) that of r
RunwaySign(y) ==
  IF y.kind = "ratio" THEN (IF y.num > 0 THEN 1 ELSE IF y.num < 0 THEN 0 - 1 ELSE 0)
  ELSE IF y.num = y.den THEN 0
  ELSE IF (y.num < y.den) = (y.r > 0) THEN 1 ELSE 0 - 1

\* x * (1 + r / PctDen)^n on the grid of x, by n yearly steps
GrowYear(x, r) ==
  LET q == x \div PctDen
      m == x % PctDen
  IN IF q > MaxNum \div (PctDen + r) THEN MaxNum
     ELSE Clip(q * (PctDen + r) + (m * (PctDen + r)) \div PctDen)

RECURSIVE CompoundYears(_, _, _)
CompoundYears(x, r, n) ==
  IF n = 0 \/ x >= MaxNum \/ x <= 0 THEN x
  ELSE CompoundYears(GrowYear(x, r), r, n - 1)

\* runwayY > 120 for a finite runway:
\*   num / den > 120 years, or -ln(num / den) / ln(1 + r) > 120, that is
\*   num * (1 + r)^120 < den for r > 0 and num * (1 + r)^120 > den for r < 0
RunwayLimit == 120
RunwayExceedsLimit(y) ==
  IF y.kind = "ratio" THEN y.num > RunwayLimit * y.den
  ELSE LET c == CompoundYears(y.num, y.r, RunwayLimit)
       IN IF y.r > 0 THEN c < y.den ELSE c > y.den

\* endAge = isFinite(runwayY) ? retireAge + runwayY : Infinity
endAgeOf(rAge, y) ==
  IF RunwayIsInfinite(y) THEN [kind |-> "Infinity"]
  ELSE [kind |-> "sum", retireAge |-> rAge, runwayY |-> y]

\* invalidRunway = !Number.isFinite(runwayY) || runwayY < 0
invalidRunwayOf(y) == RunwayIsInfinite(y) \/ RunwaySign(y) < 0

\* nearPerpetuity = invalidRunway || (Number.isFinite(runwayY) && runwayY > 120)
nearPerpetuityOf(y) ==
  invalidRunwayOf(y) \/ (~RunwayIsInfinite(y) /\ RunwayExceedsLimit(y))

\* for (const ls of lumpSums) { m = max(1, floor(ls.month)); byMonth[m] += amount }
RECURSIVE byMonthFromOne(_, _, _)
byMonthFromOne(lumps, i, byMonth) ==
  IF i > Len(lumps) THEN byMonth
  ELSE LET m == Max(1, Floor(lumps[i].month))
       IN byMonthFromOne(lumps, i + 1, MapAdd(byMonth, m, lumps[i].amount))

cap == 1200
GoalBlock == 40

\* for (let t = 0; t <= cap; t++) { if (W >= targetWealth) return t; W = ... } return Infinity
\* goalIterations runs at most n iterations of the loop from (t, W); the loop is the
\* chain of such blocks (TLC's evaluation stack bounds the depth of one recursion)
RECURSIVE goalIterations(_, _, _, _)
goalIterations(t, W, n, p) ==
  IF t > cap THEN [done |-> TRUE, result |-> Infinity]
  ELSE IF W >= p.target THEN [done |-> TRUE, result |-> t]
  ELSE IF n = 0 THEN [done |-> FALSE, t |-> t, W |-> W]
  ELSE goalIterations(t + 1,
                      Clip(Grow(W, p.r) + p.monthlySaving + MapGet(p.byMonth, t + 1)),
                      n - 1, p)

RECURSIVE monthsToGoalLoop(_, _, _)
monthsToGoalLoop(t, W, p) ==
  LET b == goalIterations(t, W, GoalBlock, p)
  IN IF b.done THEN b.result ELSE monthsToGoalLoop(b.t, b.W, p)

\* (monthsToGoalOf_minusSaving: the saving subtracted in the loop)
monthsToGoalOf_minusSaving(target, curWealth, monthlySav, lumps, r) ==
  IF target <= 0 THEN 0
  ELSE monthsToGoalLoop(0, curWealth,
                        [target |-> target, r |-> r, monthlySaving |-> 0 - monthlySav,
                         byMonth |-> byMonthFromOne(lumps, 1, EmptyMap)])
monthsToGoalOf(target, curWealth, monthlySav, lumps, r) ==
  IF target <= 0 THEN 0
  ELSE monthsToGoalLoop(0, curWealth,
                        [target |-> target, r |-> r, monthlySaving |-> monthlySav,
                         byMonth |-> byMonthFromOne(lumps, 1, EmptyMap)])

(***************************************************************************)
(* Inputs of the main component (App.tsx).  The fields are free-form: the  *)
(* ages and the returns are number inputs, currentWealth, monthlySpend and *)
(* the lump amounts are unsigned digit inputs, monthlySaving is signed, a  *)
(* lump month is any number except 0 (Number(v) || 1), swrPct is a slider  *)
(* and, with showAdvanced off, retireRealReturn follows swrPct.            *)
(***************************************************************************)
Ages == {98, 99}
RetireAges == {98, 99}
Wealths == {0, 3000, 20000}
Savings == {0 - 400, 0, 120}
Spends == {0, 1000}
SwrPcts == {35, 50}
AccumReturns == {0 - 50, 0, 50}
RetireReturns == {0 - 500, 0, 30, 80}
LumpAmount == 5000
Lump(i, h) == [id |-> i, month |-> h, amount |-> LumpAmount]
LumpLists ==
  {<<>>, <<Lump(1, 0 - 2)>>, <<Lump(1, 1)>>, <<Lump(1, 2)>>, <<Lump(1, 12)>>,
   <<Lump(1, 24)>>, <<Lump(1, 60)>>, <<Lump(1, 12), Lump(2, 12)>>,
   <<Lump(1, 0 - 2), Lump(2, 24)>>, <<Lump(1, 24), Lump(2, 60)>>}
DefaultLump == [value |-> 5000, month |-> 24]

Init ==
  /\ age \in Ages
  /\ retireAge \in RetireAges
  /\ currentWealth \in Wealths
  /\ monthlySaving \in Savings
  /\ monthlySpend \in Spends
  /\ swrPct \in SwrPcts
  /\ accumRealReturn \in AccumReturns
  /\ showAdvanced \in BOOLEAN
  /\ retireRealReturn \in (IF showAdvanced THEN RetireReturns ELSE {swrPct})
  /\ lumpSums \in LumpLists
  /\ lump = DefaultLump
  /\ pc = "accumulation"
  /\ plan = <<>>

Has(k) == k \in DOMAIN plan

\* App.tsx 410-421: accumulation and wealthAtRetire
Accumulation ==
  /\ pc = "accumulation"
  /\ LET accumulation == projectToRetirement(currentWealth, monthlySaving, monthsToRetire,
                                             monthlyAccum, lumpSums)
     IN plan' = [accumulation |-> accumulation,
                 wealthAtRetire |-> IF Len(accumulation) > 0
                                    THEN accumulation[Len(accumulation)].wealth
                                    ELSE currentWealth] @@ plan
  /\ pc' = "fullProjection"
  /\ UNCHANGED inputs

\* App.tsx 424-437: fullProjection (W is the loop's own unclamped wealth)
FullProjection ==
  /\ pc = "fullProjection"
  /\ plan' = [fullProjection |-> projectFullTo100(age, currentWealth, monthsToRetire,
                                   monthlySaving, monthlyAccum, monthlyRetire,
                                   monthlySpend, lumpSums),
              W |-> projectFullW(age, currentWealth, monthsToRetire,
                                   monthlySaving, monthlyAccum, monthlyRetire,
                                   monthlySpend, lumpSums)] @@ plan
  /\ pc' = "target"
  /\ UNCHANGED inputs

\* App.tsx 439-452: targetWealth, gap, progressPct, hasPerpetuity, extraMonthlyNeeded
Target ==
  /\ pc = "target"
  /\ LET targetWealth == targetWealthOf(monthlySpend, monthlyRetire)
     IN plan' = [targetWealth |-> targetWealth,
                 gap |-> targetWealth - plan.wealthAtRetire,
                 progressPct |-> progressPctOf(plan.wealthAtRetire, targetWealth),
                 hasPerpetuity |-> hasPerpetuityOf(plan.wealthAtRetire, monthlyRetire,
                                                   monthlySpend),
                 extraMonthlyNeeded |->
                   extraMonthlyNeededOf(targetWealth - plan.wealthAtRetire, monthsToRetire,
                                        monthlyAccum)] @@ plan
  /\ pc' = "runway"
  /\ UNCHANGED inputs

\* App.tsx 455-476: runwayY, endAge, invalidRunway, nearPerpetuity
Runway ==
  /\ pc = "runway"
  /\ LET runwayY == yearsOfRunway(plan.wealthAtRetire, monthlySpend * 12, retireRealReturn)
     IN plan' = [runwayY |-> runwayY,
                 endAge |-> endAgeOf(retireAge, runwayY),
                 invalidRunway |-> invalidRunwayOf(runwayY),
                 nearPerpetuity |-> nearPerpetuityOf(runwayY)] @@ plan
  /\ pc' = "done"
  /\ UNCHANGED inputs

\* App.tsx 482-498: monthsToGoalAtCurrentPlan
\* (MonthsToGoal_capResult: the cap returned in place of Infinity)
MonthsToGoal_capResult ==
  /\ pc = "monthsToGoal"
  /\ plan' = [monthsToGoalAtCurrentPlan |->
                Min(cap, monthsToGoalOf(targetWealthOf(monthlySpend, monthlyRetire),
                                        currentWealth, monthlySaving, lumpSums,
                                        monthlyAccum))] @@ plan
  /\ pc' = "done"
  /\ UNCHANGED inputs
MonthsToGoal ==
  /\ pc = "monthsToGoal"
  /\ plan' = [monthsToGoalAtCurrentPlan |->
                monthsToGoalOf(targetWealthOf(monthlySpend, monthlyRetire), currentWealth,
                               monthlySaving, lumpSums, monthlyAccum)] @@ plan
  /\ pc' = "done"
  /\ UNCHANGED inputs

Next == Accumulation \/ FullProjection \/ Target \/ Runway

Spec == Init /\ [][Next]_vars

\* the goal search on its own, over fewer inputs (each unreachable goal costs
\* cap + 1 iterations)
\* (with a spend whose target, about 4.7 million at 8 %, one lump sum covers)
InitGoal ==
  /\ age = 98
  /\ retireAge = 99
  /\ currentWealth \in Wealths
  /\ monthlySaving \in Savings
  /\ monthlySpend \in Spends \cup {300}
  /\ swrPct = 35
  /\ accumRealReturn \in AccumReturns
  /\ showAdvanced \in BOOLEAN
  /\ retireRealReturn \in (IF showAdvanced THEN {0, 80} ELSE {swrPct})
  /\ lumpSums \in LumpLists
  /\ lump = DefaultLump
  /\ pc = "monthsToGoal"
  /\ plan = <<>>

SpecGoal == InitGoal /\ [][MonthsToGoal]_vars

(***************************************************************************)
(* part_000: the earlier variant of the component.  Its state fields are   *)
(* monthlySave (here monthlySaving), accumReal (accumRealReturn),          *)
(* retireReal (retireRealReturn), advanced (showAdvanced) and one lump     *)
(* {value, month}.                                                         *)
(***************************************************************************)
p0_effectiveRetireReal == IF showAdvanced THEN retireRealReturn ELSE swrPct
p0_effectiveSwr == IF showAdvanced THEN swrPct ELSE retireRealReturn
p0_mAccum == monthlyRateFromRealAnnual(accumRealReturn)
p0_mRetire == monthlyRateFromRealAnnual(p0_effectiveRetireReal)
\* Math.max(0, Math.round((retireAge - age) * 12))
p0_horizonM == Max(0, (retireAge - age) * 12)

\* safe(monthlySpend / Math.max(mRetire, 1e-10)); every value of the model is finite
p0_EpsExp == 10
p0_targetWealth ==
  IF p0_mRetire >= 1 THEN DivUp(monthlySpend * RateDen, p0_mRetire * SpendDen)
  ELSE TimesPow10(monthlySpend, p0_EpsExp - SpendExp)

\* one iteration of: for (m = 0; m <= maxM; m++) {
\*   if (m === lump.month) w += lump.value;  update w;  out.push({ m, wealth: w }) }
\* (c holds the constants of the render: horizonM, mAccum, mRetire, maxM)
p0_projectionStep(s, c) ==
  LET w1 == IF s.m * MonthDen = lump.month THEN s.w + lump.value ELSE s.w
      w2 == IF s.m < c.horizonM THEN Grow(w1, c.mAccum) + monthlySaving
                                ELSE Grow(w1, c.mRetire) - Withdrawal(monthlySpend)
  IN [m |-> s.m + 1, w |-> w2, out |-> Append(s.out, [m |-> s.m, wealth |-> w2])]

\* at most n iterations from the loop state s; the loop is the chain of such blocks
RECURSIVE p0_projectionIter(_, _, _)
p0_projectionIter(s, n, c) ==
  IF s.m > c.maxM \/ n = 0 THEN s
  ELSE p0_projectionIter(p0_projectionStep(s, c), n - 1, c)

RECURSIVE p0_projectionLoop(_, _)
p0_projectionLoop(s, c) ==
  LET b == p0_projectionIter(s, LoopBlock, c)
  IN IF b.m > c.maxM THEN b.out ELSE p0_projectionLoop(b, c)

p0_projection ==
  p0_projectionLoop([m |-> 0, w |-> currentWealth, out |-> <<>>],
                    [horizonM |-> p0_horizonM, mAccum |-> p0_mAccum, mRetire |-> p0_mRetire,
                     maxM |-> Max(p0_horizonM + 1, (100 - age) * 12)])

\* projection.find((r) => r.m === horizonM)?.wealth ?? (projection[length - 1]?.wealth ?? 0)
p0_wealthAtRetire(projection) ==
  IF \E i \in 1..Len(projection) : projection[i].m = p0_horizonM
  THEN projection[CHOOSE i \in 1..Len(projection) :
                    /\ projection[i].m = p0_horizonM
                    /\ \A j \in 1..(i - 1) : projection[j].m # p0_horizonM].wealth
  ELSE IF Len(projection) > 0 THEN projection[Len(projection)].wealth ELSE 0

p0_hasPerpetuity(wealthAtRetire, targetWealth) == wealthAtRetire >= targetWealth

\* for (i = horizonM; i < length; i++) if (projection[i].wealth <= 0) return i - horizonM
\* (projection[i] is row i + 1 of the sequence)
p0_runwayM(hasPerpetuity, projection) ==
  LET hits == {i \in p0_horizonM..(Len(projection) - 1) : projection[i + 1].wealth <= 0}
  IN IF hasPerpetuity \/ hits = {} THEN Infinity
     ELSE (CHOOSE i \in hits : \A j \in hits : i <= j) - p0_horizonM

\* runwayY = Number.isFinite(runwayM) ? runwayM / 12 : Infinity, kept in months
\* endAge = Number.isFinite(runwayM) ? retireAge + runwayY : Infinity, in months
p0_endAge(runwayM) == IF runwayM = Infinity THEN Infinity ELSE retireAge * 12 + runwayM

\* nearPerpetuity = !Number.isFinite(runwayY) || runwayY > 120
p0_nearPerpetuity(runwayM) == runwayM = Infinity \/ runwayM > RunwayLimit * 12

\* clamp((wealthAtRetire / targetWealth) * 100, 0, 100), floored to whole percents;
\* 0 / 0 is NaN and Math.min, Math.max keep it
p0_progressPct(wealthAtRetire, targetWealth) ==
  IF targetWealth = 0
  THEN IF wealthAtRetire = 0 THEN [kind |-> "NaN"]
       ELSE [kind |-> "num", pct |-> IF wealthAtRetire > 0 THEN 100 ELSE 0]
  ELSE [kind |-> "num", pct |-> progressPctOf(wealthAtRetire, targetWealth)]

\* inputs of part_000: ages clamped to [15, 90], unsigned currency fields, the lump
\* month clamped to [0, 240], the returns on sliders from 0 % (swrPct from 1 %)
p0_Ages == {90}
p0_RetireAges == {90, 91}
p0_Savings == {0, 120}
p0_AccumReturns == {0, 50}
p0_Wealths == {0, 3000, 20000, 1500000000}
p0_Spends == {0, 1, 1000}
p0_RetireReturns == {0, 35, 80}
p0_Lumps == {[value |-> 5000, month |-> h] : h \in {0, 1, 2, 24, 60}}

InitP0 ==
  /\ age \in p0_Ages
  /\ retireAge \in p0_RetireAges
  /\ currentWealth \in p0_Wealths
  /\ monthlySaving \in p0_Savings
  /\ monthlySpend \in p0_Spends
  /\ swrPct \in SwrPcts
  /\ accumRealReturn \in p0_AccumReturns
  /\ showAdvanced \in BOOLEAN
  /\ retireRealReturn \in p0_RetireReturns
  /\ lump \in p0_Lumps
  /\ lumpSums = <<>>
  /\ pc = "projection"
  /\ plan = <<>>

\* part_000 73-92: projection and wealthAtRetire
p0_Projection ==
  /\ pc = "projection"
  /\ LET projection == p0_projection
     IN plan' = [projection |-> projection,
                 wealthAtRetire |-> p0_wealthAtRetire(projection)] @@ plan
  /\ pc' = "target"
  /\ UNCHANGED inputs

\* part_000 70, 95 and 98: targetWealth, progressPct and hasPerpetuity
p0_Target ==
  /\ pc = "target"
  /\ plan' = [targetWealth |-> p0_targetWealth,
              progressPct |-> p0_progressPct(plan.wealthAtRetire, p0_targetWealth),
              hasPerpetuity |-> p0_hasPerpetuity(plan.wealthAtRetire, p0_targetWealth)]
             @@ plan
  /\ pc' = "runway"
  /\ UNCHANGED inputs

\* part_000 99-111: runwayM, endAge, nearPerpetuity
p0_Runway ==
  /\ pc = "runway"
  /\ LET runwayM == p0_runwayM(plan.hasPerpetuity, plan.projection)
     IN plan' = [runwayM |-> runwayM,
                 endAge |-> p0_endAge(runwayM),
                 nearPerpetuity |-> p0_nearPerpetuity(runwayM)] @@ plan
  /\ pc' = "done"
  /\ UNCHANGED inputs

NextP0 == p0_Projection \/ p0_Target \/ p0_Runway

SpecP0 == InitP0 /\ [][NextP0]_vars

(***************************************************************************)
(* part_000 141-167: monthsToGoalAtCurrentPlan by bisection                *)
(***************************************************************************)
\* const simulate = (months) => { let w = currentWealth;
\*   for (m = 0; m <= months; m++) { lump; update; if (w >= targetWealth) return m }
\*   return Infinity }
\* one block of at most n iterations from the loop state s = [m, w]
RECURSIVE p0_simulateIter(_, _, _)
p0_simulateIter(s, n, c) ==
  IF s.m > c.months THEN [done |-> TRUE, result |-> Infinity]
  ELSE IF n = 0 THEN [done |-> FALSE, m |-> s.m, w |-> s.w]
  ELSE LET w1 == IF s.m * MonthDen = lump.month THEN s.w + lump.value ELSE s.w
           w2 == IF s.m < c.horizonM THEN Clip(Grow(w1, c.mAccum) + monthlySaving)
                                     ELSE Grow(w1, c.mRetire)
       IN IF w2 >= c.targetWealth THEN [done |-> TRUE, result |-> s.m]
          ELSE p0_simulateIter([m |-> s.m + 1, w |-> w2], n - 1, c)

RECURSIVE p0_simulateLoop(_, _)
p0_simulateLoop(s, c) ==
  LET b == p0_simulateIter(s, GoalBlock, c)
  IN IF b.done THEN b.result ELSE p0_simulateLoop([m |-> b.m, w |-> b.w], c)

p0_simulate(months, c) ==
  p0_simulateLoop([m |-> 0, w |-> currentWealth],
                  [months |-> months, horizonM |-> c.horizonM, mAccum |-> c.mAccum,
                   mRetire |-> c.mRetire, targetWealth |-> c.targetWealth])

\* for (i = 0; i < 40; i++) { mid = floor((lo + hi) / 2); t = simulate(mid);
\*   if (t === Infinity) lo = mid + 1; else hi = mid }
BisectionSteps == 40
RECURSIVE p0_bisect(_, _, _, _)
p0_bisect(lo, hi, i, c) ==
  IF i = BisectionSteps THEN hi
  ELSE LET mid == (lo + hi) \div 2
       IN IF p0_simulate(mid, c) = Infinity THEN p0_bisect(mid + 1, hi, i + 1, c)
                                           ELSE p0_bisect(lo, mid, i + 1, c)

\* hi = (retireAge - age + 60) * 12; ...; t = simulate(hi); return t === Infinity ? Infinity : hi
p0_monthsToGoalAtCurrentPlan ==
  LET c == [horizonM |-> p0_horizonM, mAccum |-> p0_mAccum, mRetire |-> p0_mRetire,
            targetWealth |-> p0_targetWealth]
      hi == p0_bisect(0, (retireAge - age + 60) * 12, 0, c)
  IN IF p0_simulate(hi, c) = Infinity THEN Infinity ELSE hi

(***************************************************************************)
(* The two goal searches on the same plan: part_000's single lump is the   *)
(* one entry of lumpSums, the retirement return is the same in both, and   *)
(* nothing decreases the wealth (no negative saving or return).            *)
(***************************************************************************)
InitSearch ==
  /\ age \in p0_Ages
  /\ retireAge \in p0_RetireAges
  /\ currentWealth \in Wealths
  /\ monthlySaving \in p0_Savings
  /\ monthlySpend \in Spends \cup {300}
  /\ swrPct = 35
  /\ accumRealReturn \in p0_AccumReturns
  /\ showAdvanced \in BOOLEAN
  /\ retireRealReturn \in (IF showAdvanced THEN {80} ELSE {swrPct})
  /\ lump \in {[value |-> LumpAmount, month |-> h] : h \in {2, 24}}
  /\ lumpSums = <<Lump(1, lump.month)>>
  /\ pc = "forward"
  /\ plan = <<>>

\* App.tsx 482-498
ForwardSearch ==
  /\ pc = "forward"
  /\ plan' = [forward |-> monthsToGoalOf(targetWealthOf(monthlySpend, monthlyRetire),
                                         currentWealth, monthlySaving, lumpSums,
                                         monthlyAccum)] @@ plan
  /\ pc' = "bisection"
  /\ UNCHANGED inputs

\* part_000 141-167
BisectionSearch ==
  /\ pc = "bisection"
  /\ plan' = [bisection |-> p0_monthsToGoalAtCurrentPlan] @@ plan
  /\ pc' = "done"
  /\ UNCHANGED inputs

NextSearch == ForwardSearch \/ BisectionSearch

SpecSearch == InitSearch /\ [][NextSearch]_vars

(***************************************************************************)
(* App.tsx 928: targetWealthBySWR of the second component, a function of   *)
(* two numbers.  A quotient of doubles by 0 is NaN for 0 / 0 and an        *)
(* infinity with the sign of the dividend otherwise.                       *)
(***************************************************************************)
\* (annualSpend * 100) / swrPct
targetWealthBySWR(annualSpend, swr) ==
  IF swr = 0
  THEN IF annualSpend = 0 THEN [kind |-> "NaN"]
       ELSE IF annualSpend > 0 THEN [kind |-> "Infinity"]
       ELSE [kind |-> "-Infinity"]
  ELSE IF swr > 0
       THEN [kind |-> "num", value |-> DivUp(annualSpend * PctDen, swr * SpendDen)]
       ELSE [kind |-> "num",
             value |-> 0 - DivUp(annualSpend * PctDen, (0 - swr) * SpendDen)]

\* arguments of the function: spends in steps of 10,000 BRL, withdrawal rates of
\* either sign and zero
MaxSpendStep == 17
SwrSpends == {100 * k : k \in 0..MaxSpendStep}
SwrArgs == {0 - 35, 0, 35}

InitSwr ==
  /\ age = 28
  /\ retireAge = 35
  /\ currentWealth = 2000
  /\ monthlySaving = 80
  /\ monthlySpend \in SwrSpends
  /\ swrPct \in SwrArgs
  /\ accumRealReturn = 50
  /\ retireRealReturn = 30
  /\ showAdvanced = TRUE
  /\ lumpSums = <<>>
  /\ lump = DefaultLump
  /\ pc = "targetWealthBySWR"
  /\ plan = <<>>

\* App.tsx 977-978: annualSpend = monthlySpend * 12; targetWealth = targetWealthBySWR(..)
TargetBySWR ==
  /\ pc = "targetWealthBySWR"
  /\ plan' = [targetWealthBySWR |-> targetWealthBySWR(monthlySpend * 12, swrPct)] @@ plan
  /\ pc' = "done"
  /\ UNCHANGED inputs

SpecSwr == InitSwr /\ [][TargetBySWR]_vars

(***************************************************************************)
(* Reference quantities of the specification, on the grids of the model    *)
(***************************************************************************)
Abs(x) == IF x >= 0 THEN x ELSE 0 - x

\* (monthlySpend * 12) / (swrPct / 100)
SwrTarget(spend, swr) == DivUp(spend * 12 * PctDen, swr * SpendDen)

\* W * rate >= spend, decided without forming W * rate
YieldCovers(W, rate, spend) ==
  IF rate = 0 THEN spend <= 0
  ELSE IF rate > 0 THEN W >= DivUp(spend * RateDen, rate * SpendDen)
  ELSE W <= (0 - spend * RateDen) \div ((0 - rate) * SpendDen)

(***************************************************************************)
(* C1: for every monthlySpend and swrPct > 0 the target wealth equals      *)
(* (monthlySpend * 12) / (swrPct / 100), whatever retireRealReturnPct is.  *)
(* Stated of the main component, where it fails: its target is             *)
(* monthlySpend / max(monthlyRetire, 1e-9).                                *)
(***************************************************************************)
C1_TargetIsSpendOverSwr ==
  (Has("targetWealth") /\ swrPct > 0) =>
     /\ Abs(plan.targetWealth - SwrTarget(monthlySpend, swrPct)) <= 1
     /\ \A r \in RetireReturns :
          targetWealthOf(monthlySpend, monthlyRateFromRealAnnual(r)) = plan.targetWealth

(***************************************************************************)
(* C2: hasPerpetuity is true exactly when wealthAtRetire * monthlyRetire   *)
(* >= monthlySpend.  Stated of part_000, which compares wealthAtRetire     *)
(* with targetWealth instead.                                              *)
(***************************************************************************)
C2_PerpetuityIsYieldTest ==
  Has("hasPerpetuity") =>
     (plan.hasPerpetuity <=> YieldCovers(plan.wealthAtRetire, p0_mRetire, monthlySpend))

(***************************************************************************)
(* C3: the perpetuity verdict and the target verdict are independent.      *)
(* With retireRealReturnPct > swrPct a plan whose yield covers the spend   *)
(* while its wealth is below the SWR target shows hasPerpetuity with       *)
(* gap > 0; with retireRealReturnPct < swrPct a plan at or above the SWR   *)
(* target whose yield does not cover the spend shows gap <= 0 without      *)
(* hasPerpetuity.  Stated of the main component, where the first verdict   *)
(* pair never occurs.                                                      *)
(***************************************************************************)
C3_VerdictsIndependent ==
  Has("hasPerpetuity") =>
     LET W == plan.wealthAtRetire
         covers == YieldCovers(W, monthlyRetire, monthlySpend)
         reached == W >= SwrTarget(monthlySpend, swrPct)
     IN /\ (retireRealReturn > swrPct /\ covers /\ ~reached)
             => (plan.hasPerpetuity /\ plan.gap > 0)
        /\ (retireRealReturn < swrPct /\ ~covers /\ reached)
             => (~plan.hasPerpetuity /\ plan.gap <= 0)

(***************************************************************************)
(* C4: a projector emits exactly one point per month t = 0..horizon with   *)
(* consecutive indices from 0; the wealth of point t is the wealth before  *)
(* the month-t update, so point 0 is the unmodified starting wealth and    *)
(* point t + 1 is the month-t update of point t.  Stated of the projection *)
(* of part_000, which records the wealth after the update.                 *)
(***************************************************************************)
C4_PointsArePreUpdate ==
  Has("projection") =>
     LET rows == plan.projection
         c == [horizonM |-> p0_horizonM, mAccum |-> p0_mAccum, mRetire |-> p0_mRetire]
     IN /\ Len(rows) = Max(p0_horizonM + 1, (100 - age) * 12) + 1
        /\ \A i \in 1..Len(rows) : rows[i].m = i - 1
        /\ rows[1].wealth = currentWealth
        /\ \A i \in 1..(Len(rows) - 1) :
             rows[i + 1].wealth
               = p0_projectionStep([m |-> i - 1, w |-> rows[i].wealth, out |-> <<>>], c).w

(***************************************************************************)
(* C5: a lump sum scheduled at month k, 1 <= k <= monthsToRetire, enters   *)
(* the wealth of point k exactly once and after compounding:               *)
(* W(k) = W(k-1) * (1 + r) + monthlySaving + lump(k).  Stated of the       *)
(* projection of part_000, which adds the lump before compounding.         *)
(***************************************************************************)
C5_LumpAfterCompounding ==
  Has("projection") =>
     \A k \in 1..p0_horizonM :
        lump.month = k * MonthDen =>
           plan.projection[k + 1].wealth
             = Grow(plan.projection[k].wealth, p0_mAccum) + monthlySaving + lump.value

(***************************************************************************)
(* C6: a lump sum whose floored month is <= 0 is folded into the starting  *)
(* wealth: its amount is in point 0 of the accumulation projection and of  *)
(* the full projection.  Stated of the main component, whose projectors    *)
(* file such a lump under month 0 and never read it.                       *)
(***************************************************************************)
RECURSIVE SumEarly(_, _)
SumEarly(lumps, i) ==
  IF i > Len(lumps) THEN 0
  ELSE (IF Floor(lumps[i].month) <= 0 THEN lumps[i].amount ELSE 0) + SumEarly(lumps, i + 1)

C6_EarlyLumpInStart ==
  Has("fullProjection") =>
     /\ plan.accumulation[1].wealth = currentWealth + SumEarly(lumpSums, 1)
     /\ plan.fullProjection[1].wealth = Max(0, currentWealth + SumEarly(lumpSums, 1))

(***************************************************************************)
(* C7: every update at t >= monthsToRetire is exactly                      *)
(* W(t+1) = W(t) * (1 + monthlyRetire) - monthlySpend, with no lump sum    *)
(* and no saving; before retirement the spend is never subtracted.  Stated *)
(* of the projection of part_000, which adds the lump in either regime.    *)
(***************************************************************************)
C7_RegimeUpdates ==
  Has("projection") =>
     LET rows == plan.projection
         mA == p0_mAccum
         mR == p0_mRetire
     IN \A i \in 1..(Len(rows) - 1) :
          IF rows[i].m >= p0_horizonM
          THEN rows[i + 1].wealth = Grow(rows[i].wealth, mR) - Withdrawal(monthlySpend)
          ELSE rows[i + 1].wealth - (Grow(rows[i].wealth, mA) + monthlySaving)
                 \in {0, lump.value}

(***************************************************************************)
(* C8: with monthsToRetire = 0 the projection to retirement reduces to the *)
(* starting wealth: wealthAtRetire = currentWealth.  Stated of part_000,   *)
(* whose point 0 already carries one update.                               *)
(***************************************************************************)
C8_ZeroHorizonIsStart ==
  (Has("wealthAtRetire") /\ p0_horizonM = 0) => plan.wealthAtRetire = currentWealth

(***************************************************************************)
(* C9 as stated: if monthlySpend = 0 the runway is infinite and            *)
(* hasPerpetuity is true, whatever the wealth and the return.              *)
(***************************************************************************)
C9_ZeroSpendAlwaysPerpetual ==
  (Has("runwayY") /\ monthlySpend = 0) =>
     (RunwayIsInfinite(plan.runwayY) /\ plan.hasPerpetuity)

(***************************************************************************)
(* C9: if monthlySpend = 0 the runway is infinite for every wealth and     *)
(* return, and hasPerpetuity is true exactly when                          *)
(* wealthAtRetire * monthlyRetire >= 0.                                    *)
(***************************************************************************)
C9_ZeroSpend ==
  (Has("runwayY") /\ monthlySpend = 0) =>
     /\ RunwayIsInfinite(plan.runwayY)
     /\ plan.hasPerpetuity <=> YieldCovers(plan.wealthAtRetire, monthlyRetire, 0)

C9_Witness ==
  /\ Has("runwayY") /\ monthlySpend = 0
  /\ plan.wealthAtRetire < 0 /\ monthlyRetire > 0
  /\ RunwayIsInfinite(plan.runwayY) /\ ~plan.hasPerpetuity

(***************************************************************************)
(* C10 as stated: whenever wealthAtRetire * monthlyRetire >= monthlySpend, *)
(* hasPerpetuity is true and the runway is infinite.                       *)
(***************************************************************************)
C10_YieldImpliesInfiniteRunway ==
  (Has("runwayY") /\ YieldCovers(plan.wealthAtRetire, monthlyRetire, monthlySpend)) =>
     (plan.hasPerpetuity /\ RunwayIsInfinite(plan.runwayY))

(***************************************************************************)
(* C10: whenever wealthAtRetire * monthlyRetire >= monthlySpend and the    *)
(* wealth at retirement or the retirement return is not negative,          *)
(* hasPerpetuity is true and the runway is infinite.                       *)
(***************************************************************************)
C10_YieldImpliesInfiniteRunwayNonNeg ==
  (/\ Has("runwayY")
   /\ YieldCovers(plan.wealthAtRetire, monthlyRetire, monthlySpend)
   /\ (plan.wealthAtRetire >= 0 \/ retireRealReturn >= 0)) =>
     (plan.hasPerpetuity /\ RunwayIsInfinite(plan.runwayY))

C10_Witness ==
  /\ Has("runwayY") /\ monthlySpend > 0 /\ retireRealReturn > 0
  /\ plan.wealthAtRetire < SwrTarget(monthlySpend, swrPct)
  /\ YieldCovers(plan.wealthAtRetire, monthlyRetire, monthlySpend)
  /\ plan.hasPerpetuity /\ RunwayIsInfinite(plan.runwayY)

(***************************************************************************)
(* C11: runwayYears is the closed form with its case split, never a scan   *)
(* of the monthly trajectory: infinite exactly when annualSpend <= 0 or    *)
(* (r # 0 and ratio <= 0), exactly startingWealth / annualSpend for r = 0, *)
(* and endAge is retireAge + runwayYears when that is finite, infinite     *)
(* otherwise.  Stated of part_000, whose runwayM scans the projection (for *)
(* wealth within the range where the model forms startingWealth * r).      *)
(***************************************************************************)
ProductRange == MaxNum \div (PctDen * SpendDen)

C11_RunwayIsClosedForm ==
  (Has("runwayM") /\ plan.wealthAtRetire <= ProductRange) =>
     LET y == yearsOfRunway(plan.wealthAtRetire, monthlySpend * 12, p0_effectiveRetireReal)
     IN /\ (plan.runwayM = Infinity) <=> RunwayIsInfinite(y)
        /\ (plan.endAge = Infinity) <=> RunwayIsInfinite(y)
        /\ (y.kind = "ratio" /\ plan.runwayM # Infinity)
             => (plan.runwayM * y.den = 12 * y.num
                 /\ plan.endAge = retireAge * 12 + plan.runwayM)

(***************************************************************************)
(* C12: for monthsToRetire > 0, extraMonthlyNeeded is 0 when               *)
(* wealthAtRetire >= targetWealth and strictly positive when               *)
(* wealthAtRetire < targetWealth.                                          *)
(***************************************************************************)
C12_ExtraZeroOrPositive ==
  (Has("extraMonthlyNeeded") /\ monthsToRetire > 0) =>
     /\ plan.wealthAtRetire >= plan.targetWealth => plan.extraMonthlyNeeded = 0
     /\ plan.wealthAtRetire < plan.targetWealth => plan.extraMonthlyNeeded > 0

C12_Witness ==
  /\ Has("extraMonthlyNeeded") /\ monthsToRetire > 0
  /\ plan.wealthAtRetire < plan.targetWealth /\ plan.extraMonthlyNeeded > 0
  /\ plan.targetWealth < MaxNum

(***************************************************************************)
(* C13: with a shortfall and n = monthsToRetire > 0, extraMonthlyNeeded is *)
(* shortfall / F with F = ((1 + r)^n - 1) / r for every monthly rate       *)
(* r # 0, negative rates included, and F = n for r = 0; so the             *)
(* accumulation projection re-run with monthlySaving + extraMonthlyNeeded  *)
(* ends at targetWealth (here: within the rounding of the money grid, one  *)
(* unit per month for the floored products and one per unit of F for the   *)
(* quotient rounded up).  Stated of the main component, which takes F = n  *)
(* for negative rates.                                                     *)
(***************************************************************************)
RerunTolerance(n) == 3 * n + 3

C13_ExtraClosesShortfall ==
  (/\ Has("extraMonthlyNeeded")
   /\ monthsToRetire > 0
   /\ plan.targetWealth > plan.wealthAtRetire
   /\ plan.targetWealth < MaxNum) =>
     LET rerun == projectToRetirement(currentWealth,
                                      monthlySaving + plan.extraMonthlyNeeded,
                                      monthsToRetire, monthlyAccum, lumpSums)
     IN Abs(rerun[Len(rerun)].wealth - plan.targetWealth) <= RerunTolerance(monthsToRetire)

(***************************************************************************)
(* Reference trajectory of the goal search: the wealth before each month   *)
(* t = 0..last, from the wealth start, with accumulation compounding, the  *)
(* monthly saving and the lump schedule byMonth (built in blocks).         *)
(***************************************************************************)
RECURSIVE TrajectoryIter(_, _, _)
TrajectoryIter(s, n, p) ==
  IF s.t > p.last \/ n = 0 THEN s
  ELSE TrajectoryIter([t |-> s.t + 1,
                       W |-> Clip(Grow(s.W, p.r) + p.monthlySaving
                                  + MapGet(p.byMonth, s.t + 1)),
                       ws |-> Append(s.ws, s.W)],
                      n - 1, p)

RECURSIVE TrajectoryLoop(_, _)
TrajectoryLoop(s, p) ==
  LET b == TrajectoryIter(s, GoalBlock, p)
  IN IF b.t > p.last THEN b.ws ELSE TrajectoryLoop(b, p)

Trajectory(start, monthlySav, r, byMonth, last) ==
  TrajectoryLoop([t |-> 0, W |-> start, ws |-> <<>>],
                 [r |-> r, monthlySaving |-> monthlySav, byMonth |-> byMonth, last |-> last])

\* the schedule of the specification: a lump at its own floored month, the lumps
\* with floored month <= 0 being part of the starting wealth
RECURSIVE byMonthOwn(_, _, _)
byMonthOwn(lumps, i, byMonth) ==
  IF i > Len(lumps) THEN byMonth
  ELSE byMonthOwn(lumps, i + 1,
                  IF Floor(lumps[i].month) >= 1
                  THEN MapAdd(byMonth, Floor(lumps[i].month), lumps[i].amount)
                  ELSE byMonth)

\* first index (from 0) of a trajectory at or above the target, Infinity if none
FirstReach(ws, target) ==
  LET hits == {t \in 0..(Len(ws) - 1) : ws[t + 1] >= target}
  IN IF hits = {} THEN Infinity ELSE CHOOSE t \in hits : \A u \in hits : t <= u

(***************************************************************************)
(* C14: monthsToGoal is the first month m >= 0 at which the simulated      *)
(* wealth (accumulation compounding, the current monthlySaving, every lump *)
(* at its own scheduled month, a lump of month <= 0 in the starting        *)
(* wealth) is >= targetWealth, and 0 when the starting wealth already      *)
(* meets the target.  Stated of the forward search of the main component,  *)
(* which moves the lumps of month <= 0 to month 1.                         *)
(***************************************************************************)
C14_FirstMonthAtTarget ==
  Has("monthsToGoalAtCurrentPlan") =>
     LET target == targetWealthOf(monthlySpend, monthlyRetire)
         ws == Trajectory(currentWealth + SumEarly(lumpSums, 1), monthlySaving,
                          monthlyAccum, byMonthOwn(lumpSums, 1, EmptyMap), cap)
     IN plan.monthsToGoalAtCurrentPlan = FirstReach(ws, target)

(***************************************************************************)
(* C15: on a plan whose accumulation trajectory is non-decreasing, the     *)
(* forward search of App.tsx and the bisection of part_000 return the same *)
(* month for the same currentWealth, monthlySaving, lump, rates and        *)
(* targetWealth, month 0 and infinity included.                            *)
(***************************************************************************)
C15_SearchesAgree ==
  Has("bisection") =>
     (targetWealthOf(monthlySpend, monthlyRetire) = p0_targetWealth
        => plan.forward = plan.bisection)

(***************************************************************************)
(* C16: with every other input fixed, for monthlySaving s1 <= s2:          *)
(* wealthAtRetire(s1) <= wealthAtRetire(s2), extraMonthlyNeeded(s1) >=     *)
(* extraMonthlyNeeded(s2) and monthsToGoal(s1) >= monthsToGoal(s2), with   *)
(* infinity as the largest value.  (s1 is the saving of the plan, s2 every *)
(* larger saving of the input set.)                                        *)
(***************************************************************************)
wealthAtRetireWith(s) ==
  LET rows == projectToRetirement(currentWealth, s, monthsToRetire, monthlyAccum, lumpSums)
  IN rows[Len(rows)].wealth

extraMonthlyNeededWith(s) ==
  extraMonthlyNeededOf(targetWealthOf(monthlySpend, monthlyRetire) - wealthAtRetireWith(s),
                       monthsToRetire, monthlyAccum)

monthsToGoalWith(s) ==
  monthsToGoalOf(targetWealthOf(monthlySpend, monthlyRetire), currentWealth, s, lumpSums,
                 monthlyAccum)

C16_MonotoneInSaving ==
  Has("monthsToGoalAtCurrentPlan") =>
     \A s2 \in {s \in Savings : s >= monthlySaving} :
        /\ wealthAtRetireWith(monthlySaving) <= wealthAtRetireWith(s2)
        /\ extraMonthlyNeededWith(monthlySaving) >= extraMonthlyNeededWith(s2)
        /\ plan.monthsToGoalAtCurrentPlan >= monthsToGoalWith(s2)

C16_Witness ==
  /\ Has("monthsToGoalAtCurrentPlan")
  /\ \E s2 \in Savings :
       /\ s2 > monthlySaving
       /\ wealthAtRetireWith(monthlySaving) < wealthAtRetireWith(s2)
       /\ extraMonthlyNeededWith(monthlySaving) > extraMonthlyNeededWith(s2)
       /\ plan.monthsToGoalAtCurrentPlan = Infinity
       /\ monthsToGoalWith(s2) < Infinity

(***************************************************************************)
(* C17: every loop is bounded: the projections emit horizon + 1 points,    *)
(* the forward goal search inspects the months 0..cap (cap + 1 = 1201      *)
(* iterations) and returns a month of that range or infinity, infinity     *)
(* exactly when no month of the range has simulated wealth >= targetWealth.*)
(***************************************************************************)
C17_SearchBounded ==
  Has("monthsToGoalAtCurrentPlan") =>
     LET target == targetWealthOf(monthlySpend, monthlyRetire)
         ws == Trajectory(currentWealth, monthlySaving, monthlyAccum,
                          byMonthFromOne(lumpSums, 1, EmptyMap), cap)
         m == plan.monthsToGoalAtCurrentPlan
     IN /\ Len(ws) = cap + 1
        /\ m \in 0..cap \/ m = Infinity
        /\ m = Infinity <=> (target > 0 /\ \A t \in 1..Len(ws) : ws[t] < target)
        /\ Len(projectToRetirement(currentWealth, monthlySaving, monthsToRetire,
                                   monthlyAccum, lumpSums)) = monthsToRetire + 1
        /\ Len(projectFullTo100(age, currentWealth, monthsToRetire, monthlySaving,
                                monthlyAccum, monthlyRetire, monthlySpend, lumpSums))
             = monthsTo100 + 1

C17_Witness ==
  /\ Has("monthsToGoalAtCurrentPlan")
  /\ plan.monthsToGoalAtCurrentPlan = Infinity
  /\ monthlySaving > 0 /\ accumRealReturn > 0
  /\ targetWealthOf(monthlySpend, monthlyRetire) > currentWealth

C19_ProgressInRange ==
  Has("progressPct") =>
     /\ plan.progressPct.kind = "num"
     /\ plan.progressPct.pct \in 0..100

(***************************************************************************)
(* C20: nearPerpetuity is true if and only if runwayYears is infinite or   *)
(* greater than 120 years; a finite runway of at most 120 years is never   *)
(* flagged.  Stated of the main component, which also flags a negative     *)
(* runway.                                                                 *)
(***************************************************************************)
C20_NearPerpetuityIffLongRunway ==
  Has("nearPerpetuity") =>
     (plan.nearPerpetuity
        <=> (RunwayIsInfinite(plan.runwayY) \/ RunwayExceedsLimit(plan.runwayY)))

(***************************************************************************)
(* C21: in projectFullTo100 the point emitted for month t is max(0, W(t)), *)
(* W being the loop's own wealth, which is never clamped: W starts at      *)
(* currentWealth and every W(t+1) is computed from the unclamped W(t), so  *)
(* the first month with W < 0 is the first month the unclamped recurrence  *)
(* goes negative.                                                          *)
(***************************************************************************)
FullStep(t, W) ==
  IF t < monthsToRetire
  THEN Grow(W, monthlyAccum) + monthlySaving
       + MapGet(byMonthClamped(lumpSums, 1, monthsToRetire, EmptyMap), t + 1)
  ELSE Grow(W, monthlyRetire) - Withdrawal(monthlySpend)

\* the series W(0..n) of the recurrence without any clamp
RECURSIVE Unclamped(_, _)
Unclamped(ws, n) ==
  IF Len(ws) > n THEN ws
  ELSE Unclamped(Append(ws, FullStep(Len(ws) - 1, ws[Len(ws)])), n)

C21_ClampOnlyOnEmit ==
  Has("fullProjection") =>
     LET rows == plan.fullProjection
         ref == Unclamped(<<currentWealth>>, monthsTo100)
     IN /\ Len(rows) = monthsTo100 + 1
        /\ plan.W = ref
        /\ \A i \in 1..Len(rows) :
              rows[i].m = i - 1 /\ rows[i].wealth = Max(0, ref[i])
        /\ \A i \in 1..Len(ref) : (plan.W[i] < 0) <=> (ref[i] < 0)

C21_Witness ==
  /\ Has("fullProjection")
  /\ \E i \in 1..(Len(plan.W) - 1) :
        /\ plan.W[i] < 0 /\ plan.W[i + 1] < plan.W[i]
        /\ plan.fullProjection[i].wealth = 0
        /\ plan.fullProjection[i + 1].wealth = 0
  /\ \E i \in 1..Len(plan.W) : plan.W[i] > 0

(***************************************************************************)
(* App.tsx: the main component as a reactive machine.  An event handler    *)
(* sets state (pc "idle" -> "render"), the component renders, reusing a    *)
(* useMemo value when its dependency array is unchanged ("render" ->       *)
(* "effect"), and then the effect of lines 396-400 runs if its             *)
(* dependencies changed; a state change made by the effect renders again.  *)
(* plan.memo holds, per useMemo, the dependency array of the last          *)
(* computation and its value; dependencies are compared by value (the      *)
(* handlers of lines 525-527 build a new lumpSums array on every change,   *)
(* so an array identical by reference is identical by content).            *)
(* The handlers accept any number; the events of NextUi draw from a few.   *)
(* addLump is unbounded in the code and capped here at MaxLumps entries.   *)
(***************************************************************************)
MaxLumps == 1

InitUi ==
  /\ age = 98
  /\ retireAge = 99
  /\ currentWealth = 3000
  /\ monthlySaving = 120
  /\ monthlySpend = 1000
  /\ swrPct = 35
  /\ accumRealReturn = 50
  /\ retireRealReturn = 35
  /\ showAdvanced = FALSE
  /\ lumpSums = <<Lump(1, 24)>>
  /\ lump = DefaultLump
  /\ pc = "render"
  /\ plan = [memo |-> EmptyMap, effectDeps |-> <<>>, display |-> <<>>]

\* App.tsx 561, 565, 569, 573, 577, 618: the six plain inputs; k names the state
\* that the handler sets
SetInput(k, v) ==
  /\ pc = "idle"
  /\ age' = IF k = "age" THEN v ELSE age
  /\ retireAge' = IF k = "retireAge" THEN v ELSE retireAge
  /\ currentWealth' = IF k = "currentWealth" THEN v ELSE currentWealth
  /\ monthlySaving' = IF k = "monthlySaving" THEN v ELSE monthlySaving
  /\ monthlySpend' = IF k = "monthlySpend" THEN v ELSE monthlySpend
  /\ accumRealReturn' = IF k = "accumRealReturn" THEN v ELSE accumRealReturn
  /\ pc' = "render"
  /\ UNCHANGED <<swrPct, retireRealReturn, showAdvanced, lumpSums, lump, plan>>

\* App.tsx 614: (v) => { setSwrPct(v); if (!showAdvanced) setRetireRealReturn(v); }
SwrSliderChange(v) ==
  /\ pc = "idle"
  /\ swrPct' = v
  /\ retireRealReturn' = IF ~showAdvanced THEN v ELSE retireRealReturn
  /\ pc' = "render"
  /\ UNCHANGED <<age, retireAge, currentWealth, monthlySaving, monthlySpend,
                 accumRealReturn, showAdvanced, lumpSums, lump, plan>>

\* App.tsx 622-629: the retirement return input exists only while showAdvanced
SetRetireRealReturn(v) ==
  /\ pc = "idle"
  /\ showAdvanced
  /\ retireRealReturn' = v
  /\ pc' = "render"
  /\ UNCHANGED <<age, retireAge, currentWealth, monthlySaving, monthlySpend, swrPct,
                 accumRealReturn, showAdvanced, lumpSums, lump, plan>>

\* App.tsx 640 and 131-152: the switch reports its new checked state
SetShowAdvanced ==
  /\ pc = "idle"
  /\ showAdvanced' = ~showAdvanced
  /\ pc' = "render"
  /\ UNCHANGED <<age, retireAge, currentWealth, monthlySaving, monthlySpend, swrPct,
                 accumRealReturn, retireRealReturn, lumpSums, lump, plan>>

\* App.tsx 525: addLump (month 1, amount 100_000)
addLump ==
  /\ pc = "idle"
  /\ Len(lumpSums) < MaxLumps
  /\ LET id == (IF Len(lumpSums) > 0 THEN lumpSums[Len(lumpSums)].id ELSE 0) + 1
     IN /\ id <= MaxLumps
        /\ lumpSums' = Append(lumpSums, [id |-> id, month |-> 1 * MonthDen, amount |-> 100])
  /\ pc' = "render"
  /\ UNCHANGED <<age, retireAge, currentWealth, monthlySaving, monthlySpend, swrPct,
                 accumRealReturn, retireRealReturn, showAdvanced, lump, plan>>

\* App.tsx 526: updateLump(id, field, value)
updateLump(id, field, value) ==
  /\ pc = "idle"
  /\ \E i \in 1..Len(lumpSums) : lumpSums[i].id = id
  /\ lumpSums' = [i \in 1..Len(lumpSums) |->
                    IF lumpSums[i].id = id
                    THEN [lumpSums[i] EXCEPT ![field] = value]
                    ELSE lumpSums[i]]
  /\ pc' = "render"
  /\ UNCHANGED <<age, retireAge, currentWealth, monthlySaving, monthlySpend, swrPct,
                 accumRealReturn, retireRealReturn, showAdvanced, lump, plan>>

\* App.tsx 527: removeLump(id)
removeLump(id) ==
  /\ pc = "idle"
  /\ \E i \in 1..Len(lumpSums) : lumpSums[i].id = id
  /\ lumpSums' = SelectSeq(lumpSums, LAMBDA ls : ls.id # id)
  /\ pc' = "render"
  /\ UNCHANGED <<age, retireAge, currentWealth, monthlySaving, monthlySpend, swrPct,
                 accumRealReturn, retireRealReturn, showAdvanced, lump, plan>>

\* useMemo(compute, deps): the stored value while deps are unchanged
useMemo(k, deps, fresh) ==
  IF k \in DOMAIN plan.memo /\ plan.memo[k].deps = deps
  THEN plan.memo[k]
  ELSE [deps |-> deps, value |-> fresh]

\* App.tsx 436: the dependency array of fullProjection
fullProjectionDeps_noSpend ==
  <<age, currentWealth, monthsToRetire, monthlySaving, monthlyAccum, monthlyRetire, lumpSums>>
fullProjectionDeps ==
  <<age, currentWealth, monthsToRetire, monthlySaving, monthlyAccum, monthlyRetire,
    monthlySpend, lumpSums>>

\* App.tsx 501-509: one chart row per projected row, with the target repeated
chartDataOf(fullProjection, targetWealth) ==
  [i \in 1..Len(fullProjection) |->
     [Meses |-> fullProjection[i].m,
      Patrimonio |-> fullProjection[i].wealth,
      Meta |-> targetWealth]]

wealthAtRetireOf(accumulation) ==
  IF Len(accumulation) > 0 THEN accumulation[Len(accumulation)].wealth ELSE currentWealth

\* App.tsx 403-509: one render of the component (the dependency arrays are those of
\* lines 420, 436, 498 and 508)
Render ==
  /\ pc = "render"
  /\ LET accumulation ==
           useMemo("accumulation",
                   <<currentWealth, monthlySaving, monthsToRetire, monthlyAccum, lumpSums>>,
                   projectToRetirement(currentWealth, monthlySaving, monthsToRetire,
                                       monthlyAccum, lumpSums))
         wealthAtRetire == wealthAtRetireOf(accumulation.value)
         fullProjection ==
           useMemo("fullProjection", fullProjectionDeps,
                   projectFullTo100(age, currentWealth, monthsToRetire, monthlySaving,
                                    monthlyAccum, monthlyRetire, monthlySpend, lumpSums))
         targetWealth == targetWealthOf(monthlySpend, monthlyRetire)
         monthsToGoalAtCurrentPlan ==
           useMemo("monthsToGoalAtCurrentPlan",
                   <<targetWealth, currentWealth, monthlySaving, lumpSums, monthlyAccum>>,
                   monthsToGoalOf(targetWealth, currentWealth, monthlySaving, lumpSums,
                                  monthlyAccum))
         chartData ==
           useMemo("chartData", <<fullProjection.value, targetWealth>>,
                   chartDataOf(fullProjection.value, targetWealth))
     IN plan' = [plan EXCEPT
                   !.memo = [accumulation |-> accumulation,
                             fullProjection |-> fullProjection,
                             monthsToGoalAtCurrentPlan |-> monthsToGoalAtCurrentPlan,
                             chartData |-> chartData],
                   !.display = [swrPct |-> swrPct,
                                monthlyRetire |-> monthlyRetire,
                                wealthAtRetire |-> wealthAtRetire,
                                targetWealth |-> targetWealth,
                                gap |-> targetWealth - wealthAtRetire,
                                hasPerpetuity |->
                                  hasPerpetuityOf(wealthAtRetire, monthlyRetire, monthlySpend),
                                extraMonthlyNeeded |->
                                  extraMonthlyNeededOf(targetWealth - wealthAtRetire,
                                                       monthsToRetire, monthlyAccum)]]
  /\ pc' = "effect"
  /\ UNCHANGED inputs

\* App.tsx 396-400: useEffect(() => { if (!showAdvanced) setRetireRealReturn(swrPct) },
\* [showAdvanced, swrPct]); a set state that differs renders again
SyncEffect ==
  /\ pc = "effect"
  /\ LET run == plan.effectDeps # <<showAdvanced, swrPct>>
         next == IF run /\ ~showAdvanced THEN swrPct ELSE retireRealReturn
     IN /\ retireRealReturn' = next
        /\ plan' = [plan EXCEPT !.effectDeps = <<showAdvanced, swrPct>>]
        /\ pc' = IF next # retireRealReturn THEN "render" ELSE "idle"
  /\ UNCHANGED <<age, retireAge, currentWealth, monthlySaving, monthlySpend, swrPct,
                 accumRealReturn, showAdvanced, lumpSums, lump>>

NextUi ==
  \/ \E v \in {98, 99} : SetInput("age", v)
  \/ \E v \in {98, 99} : SetInput("retireAge", v)
  \/ \E v \in {3000, 20000} : SetInput("currentWealth", v)
  \/ \E v \in {120, 400} : SetInput("monthlySaving", v)
  \/ \E v \in {300, 1000} : SetInput("monthlySpend", v)
  \/ \E v \in {0, 50} : SetInput("accumRealReturn", v)
  \/ \E v \in SwrPcts : SwrSliderChange(v)
  \/ \E v \in {80} : SetRetireRealReturn(v)
  \/ SetShowAdvanced
  \/ addLump
  \/ \E id \in 1..MaxLumps : updateLump(id, "month", 12 * MonthDen)
  \/ \E id \in 1..MaxLumps : updateLump(id, "amount", 100)
  \/ \E id \in 1..MaxLumps : removeLump(id)
  \/ Render
  \/ SyncEffect

SpecUi == InitUi /\ [][NextUi]_vars

(***************************************************************************)
(* C24: the displayed result is a function of the current inputs only:     *)
(* after any sequence of input changes, once the component has rendered,   *)
(* every memoized output equals the value computed afresh from the current *)
(* inputs (no stale memo).                                                 *)
(***************************************************************************)
C24_NoStaleMemo ==
  (pc # "render" /\ plan.memo # EmptyMap) =>
     LET accumulation == projectToRetirement(currentWealth, monthlySaving, monthsToRetire,
                                             monthlyAccum, lumpSums)
         fullProjection == projectFullTo100(age, currentWealth, monthsToRetire,
                                            monthlySaving, monthlyAccum, monthlyRetire,
                                            monthlySpend, lumpSums)
         targetWealth == targetWealthOf(monthlySpend, monthlyRetire)
     IN /\ plan.memo.accumulation.value = accumulation
        /\ plan.memo.fullProjection.value = fullProjection
        /\ plan.memo.monthsToGoalAtCurrentPlan.value
             = monthsToGoalOf(targetWealth, currentWealth, monthlySaving, lumpSums,
                              monthlyAccum)
        /\ plan.memo.chartData.value = chartDataOf(fullProjection, targetWealth)
        /\ plan.display.wealthAtRetire = wealthAtRetireOf(accumulation)
        /\ plan.display.targetWealth = targetWealth

C24_Witness ==
  /\ pc = "idle"
  /\ monthlySpend = 300
  /\ age = 99
  /\ showAdvanced /\ retireRealReturn = 80
  /\ lumpSums = <<>>
  /\ plan.memo.fullProjection.deps = fullProjectionDeps
  /\ plan.display.targetWealth = targetWealthOf(300, monthlyRetire)

(***************************************************************************)
(* part_000 as a reactive machine: an event handler sets state, then the   *)
(* component renders (it has no effects).  The goal search of lines        *)
(* 141-167 is left to SpecSearch.                                          *)
(***************************************************************************)
p0_clamp(n, a, b) == Max(a, Min(b, n))
p0_isFiniteNumber(n) == n \notin {Infinity, 0 - Infinity, NaN}
p0_safe(n) == IF p0_isFiniteNumber(n) THEN n ELSE 0

\* part_000 122-137: rows mapped through safe, then filtered on isFiniteNumber
p0_chartData(projection, targetWealth) ==
  SelectSeq([i \in 1..Len(projection) |->
               [Meses |-> projection[i].m,
                Patrimonio |-> p0_safe(projection[i].wealth),
                Meta |-> p0_safe(targetWealth)]],
            LAMBDA d : /\ p0_isFiniteNumber(d.Meses)
                       /\ p0_isFiniteNumber(d.Patrimonio)
                       /\ p0_isFiniteNumber(d.Meta))


InitUiP0 ==
  /\ age = 90
  /\ retireAge = 91
  /\ currentWealth = 3000
  /\ monthlySaving = 120
  /\ monthlySpend = 1000
  /\ swrPct = 35
  /\ accumRealReturn = 50
  /\ retireRealReturn = 35
  /\ showAdvanced = FALSE
  /\ lump = DefaultLump
  /\ lumpSums = <<>>
  /\ pc = "render"
  /\ plan = [memo |-> EmptyMap, display |-> <<>>]

\* part_000 365: setAge(clamp(Number(v), 15, 90))
p0_setAge(v) ==
  /\ pc = "idle" /\ age' = p0_clamp(v, 15, 90) /\ pc' = "render"
  /\ UNCHANGED <<retireAge, currentWealth, monthlySaving, monthlySpend, swrPct,
                 accumRealReturn, retireRealReturn, showAdvanced, lumpSums, lump, plan>>
\* part_000 374: setRetireAge(clamp(Number(v), age + 1, 90))
p0_setRetireAge(v) ==
  /\ pc = "idle" /\ retireAge' = p0_clamp(v, age + 1, 90) /\ pc' = "render"
  /\ UNCHANGED <<age, currentWealth, monthlySaving, monthlySpend, swrPct,
                 accumRealReturn, retireRealReturn, showAdvanced, lumpSums, lump, plan>>
\* part_000 379, 382, 385, 415, 424: the fields and sliders that set one state
\* (k names it; the SWR slider sets swrPct alone)
p0_setInput(k, v) ==
  /\ pc = "idle"
  /\ currentWealth' = IF k = "currentWealth" THEN v ELSE currentWealth
  /\ monthlySaving' = IF k = "monthlySave" THEN v ELSE monthlySaving
  /\ monthlySpend' = IF k = "monthlySpend" THEN v ELSE monthlySpend
  /\ swrPct' = IF k = "swrPct" THEN v ELSE swrPct
  /\ accumRealReturn' = IF k = "accumReal" THEN v ELSE accumRealReturn
  /\ pc' = "render"
  /\ UNCHANGED <<age, retireAge, retireRealReturn, showAdvanced, lumpSums, lump, plan>>
\* part_000 393 and 400: setLump({...lump, value}), setLump({...lump, month: clamp(v, 0, 240)})
p0_setLumpValue(v) ==
  /\ pc = "idle" /\ lump' = [lump EXCEPT !.value = v] /\ pc' = "render"
  /\ UNCHANGED <<age, retireAge, currentWealth, monthlySaving, monthlySpend, swrPct,
                 accumRealReturn, retireRealReturn, showAdvanced, lumpSums, plan>>
p0_setLumpMonth(h) ==
  /\ pc = "idle"
  /\ lump' = [lump EXCEPT !.month = p0_clamp(h, 0, 240 * MonthDen)]
  /\ pc' = "render"
  /\ UNCHANGED <<age, retireAge, currentWealth, monthlySaving, monthlySpend, swrPct,
                 accumRealReturn, retireRealReturn, showAdvanced, lumpSums, plan>>
\* part_000 436: setAdvanced(e.target.checked)
p0_setAdvanced ==
  /\ pc = "idle" /\ showAdvanced' = ~showAdvanced /\ pc' = "render"
  /\ UNCHANGED <<age, retireAge, currentWealth, monthlySaving, monthlySpend, swrPct,
                 accumRealReturn, retireRealReturn, lumpSums, lump, plan>>
\* part_000 442-449: the retirement return slider, disabled unless advanced;
\* (v) => advanced ? setRetireReal(v) : (setRetireReal(v), setSwrPct(v))
p0_retireRealChange(v) ==
  /\ pc = "idle"
  /\ showAdvanced
  /\ retireRealReturn' = v
  /\ swrPct' = IF showAdvanced THEN swrPct ELSE v
  /\ pc' = "render"
  /\ UNCHANGED <<age, retireAge, currentWealth, monthlySaving, monthlySpend,
                 accumRealReturn, showAdvanced, lumpSums, lump>>
  /\ plan' = plan

\* part_000 61-137: one render of the component (the dependency arrays are those
\* of lines 89, 105 and 136)
p0_Render ==
  /\ pc = "render"
  /\ LET projection == useMemo("projection",
                               <<age, p0_horizonM, currentWealth, monthlySaving,
                                 monthlySpend, lump, p0_mAccum, p0_mRetire>>,
                               p0_projection)
         wealthAtRetire == p0_wealthAtRetire(projection.value)
         hasPerpetuity == p0_hasPerpetuity(wealthAtRetire, p0_targetWealth)
         runwayM == useMemo("runwayM", <<hasPerpetuity, p0_horizonM, projection.value>>,
                            p0_runwayM(hasPerpetuity, projection.value))
         chartData == useMemo("chartData", <<projection.value, p0_targetWealth>>,
                              p0_chartData(projection.value, p0_targetWealth))
     IN plan' = [plan EXCEPT
                   !.memo = [projection |-> projection, runwayM |-> runwayM,
                             chartData |-> chartData],
                   !.display = [effectiveSwr |-> p0_effectiveSwr,
                                effectiveRetireReal |-> p0_effectiveRetireReal,
                                mRetire |-> p0_mRetire,
                                targetWealth |-> p0_targetWealth,
                                wealthAtRetire |-> wealthAtRetire,
                                hasPerpetuity |-> hasPerpetuity]]
  /\ pc' = "idle"
  /\ UNCHANGED inputs

NextUiP0 ==
  \/ \E v \in {89, 90} : p0_setAge(v)
  \/ \E v \in p0_RetireAges : p0_setRetireAge(v)
  \/ \E v \in {3000, 20000} : p0_setInput("currentWealth", v)
  \/ \E v \in p0_Savings : p0_setInput("monthlySave", v)
  \/ \E v \in {300, 1000} : p0_setInput("monthlySpend", v)
  \/ \E v \in SwrPcts : p0_setInput("swrPct", v)
  \/ \E v \in p0_AccumReturns : p0_setInput("accumReal", v)
  \/ p0_setLumpValue(100)
  \/ \E h \in {0, 12 * MonthDen} : p0_setLumpMonth(h)
  \/ p0_setAdvanced
  \/ p0_retireRealChange(80)
  \/ p0_Render

SpecUiP0 == InitUiP0 /\ [][NextUiP0]_vars

(***************************************************************************)
(* C22: after any sequence of UI events (moving the SWR slider, toggling   *)
(* advanced mode, editing the retirement return while advanced), whenever  *)
(* advanced mode is off and nothing is pending, the retirement return used *)
(* in the calculation equals the SWR shown with the magic number.  Stated  *)
(* of part_000, which shows effectiveSwr and computes with                 *)
(* effectiveRetireReal.                                                    *)
(***************************************************************************)
C22_ReturnUsedIsSwrShown ==
  (pc = "idle" /\ ~showAdvanced) =>
     /\ plan.display.effectiveRetireReal = plan.display.effectiveSwr
     /\ plan.display.mRetire = monthlyRateFromRealAnnual(plan.display.effectiveSwr)

(***************************************************************************)
(* App.tsx 813-1129: the second component (names prefixed app2_).  Its     *)
(* inputs are raw numbers (+e.target.value), its lump months are used as   *)
(* map keys unrounded and unclamped, and it has no runway and no goal      *)
(* search.                                                                 *)
(***************************************************************************)
\* for (const ls of lumps) byMonth.set(ls.month, (byMonth.get(ls.month) || 0) + ls.amount)
RECURSIVE app2_byMonth(_, _, _)
app2_byMonth(lumps, i, byMonth) ==
  IF i > Len(lumps) THEN byMonth
  ELSE app2_byMonth(lumps, i + 1, MapAdd(byMonth, lumps[i].month, lumps[i].amount))

\* App.tsx 931-947 (a key of byMonth is a month in halves; the loop reads whole months)
RECURSIVE app2_projectToRetirementLoop(_, _, _, _, _, _, _)
app2_projectToRetirementLoop(t, W, rows, monthlySav, months, monthlyRealReturn, byMonth) ==
  IF t > months THEN rows
  ELSE app2_projectToRetirementLoop(t + 1,
                                    Grow(W, monthlyRealReturn) + monthlySav
                                      + MapGet(byMonth, (t + 1) * MonthDen),
                                    Append(rows, [m |-> t, wealth |-> W]),
                                    monthlySav, months, monthlyRealReturn, byMonth)

app2_projectToRetirement(curWealth, monthlySav, months, monthlyRealReturn, lumps) ==
  app2_projectToRetirementLoop(0, curWealth, <<>>, monthlySav, months, monthlyRealReturn,
                               app2_byMonth(lumps, 1, EmptyMap))

\* App.tsx 981: Math.max(0, Math.min(100, (wealthAtRetire / targetWealth) * 100)),
\* floored to whole percents; 0 / 0 is NaN and Math.min, Math.max keep it
app2_progress(wealthAtRetire, targetWealth) ==
  IF targetWealth = 0
  THEN IF wealthAtRetire = 0 THEN [kind |-> "NaN"]
       ELSE [kind |-> "num", pct |-> IF wealthAtRetire > 0 THEN 100 ELSE 0]
  ELSE [kind |-> "num", pct |-> progressPctOf(wealthAtRetire, targetWealth)]

\* App.tsx 984: gap > 0 ? gap / monthsToRetire : 0 (a positive gap over 0 is Infinity)
app2_extraSaving(gap, n) ==
  IF gap > 0 THEN (IF n = 0 THEN Infinity ELSE DivUp(gap, n)) ELSE 0

InitApp2 ==
  /\ age \in Ages
  /\ retireAge \in RetireAges
  /\ currentWealth \in Wealths
  /\ monthlySaving \in Savings
  /\ monthlySpend \in Spends
  /\ swrPct \in SwrPcts
  /\ accumRealReturn \in AccumReturns
  /\ retireRealReturn \in RetireReturns
  /\ showAdvanced = TRUE
  /\ lumpSums \in LumpLists
  /\ lump = DefaultLump
  /\ pc = "accumulation"
  /\ plan = <<>>

\* App.tsx 969-976: monthsToRetire, accumulation, wealthAtRetire
app2_Accumulation ==
  /\ pc = "accumulation"
  /\ LET accumulation ==
           app2_projectToRetirement(currentWealth, monthlySaving, monthsToRetire,
                                    monthlyRateFromRealAnnual(accumRealReturn), lumpSums)
     IN plan' = [monthsToRetire |-> monthsToRetire,
                 accumulation |-> accumulation,
                 wealthAtRetire |-> IF Len(accumulation) > 0
                                    THEN accumulation[Len(accumulation)].wealth
                                    ELSE currentWealth] @@ plan
  /\ pc' = "target"
  /\ UNCHANGED inputs

\* App.tsx 977-984: targetWealth, gap, progress, sustainableSpend, extraSaving
\* (swrPct comes from a slider of 2.5 to 8, so the target is a number)
app2_Target ==
  /\ pc = "target"
  /\ LET targetWealth == targetWealthBySWR(monthlySpend * 12, swrPct).value
         gap == targetWealth - plan.wealthAtRetire
     IN plan' = [targetWealth |-> targetWealth,
                 gap |-> gap,
                 progress |-> app2_progress(plan.wealthAtRetire, targetWealth),
                 sustainableSpend |->
                   (plan.wealthAtRetire * retireRealReturn) \div (PctDen * 12),
                 extraSaving |-> app2_extraSaving(gap, plan.monthsToRetire)] @@ plan
  /\ pc' = "done"
  /\ UNCHANGED inputs

NextApp2 == app2_Accumulation \/ app2_Target

SpecApp2 == InitApp2 /\ [][NextApp2]_vars

(***************************************************************************)
(* C23: when retireAge <= currentAge, monthsToRetire is 0 and never        *)
(* negative, the accumulation loop runs its single iteration t = 0 (no     *)
(* accumulation update reaches the result: wealthAtRetire is the starting  *)
(* wealth), and a complete result is still produced: every number of it    *)
(* is finite.  Stated of the second component, whose extra saving divides  *)
(* the gap by monthsToRetire.                                              *)
(***************************************************************************)
C23_ZeroHorizonResult ==
  (Has("extraSaving") /\ retireAge <= age) =>
     /\ plan.monthsToRetire = 0
     /\ Len(plan.accumulation) = 1
     /\ plan.wealthAtRetire = currentWealth
     /\ IsFinite(plan.targetWealth)
     /\ IsFinite(plan.extraSaving)

(***************************************************************************)
(* C29: for every input, monthsToRetire = 0 and a non-positive             *)
(* accumulation rate included, the extra monthly saving shown is a finite  *)
(* number >= 0 (no division by zero, no Infinity, no NaN, no negative      *)
(* amount).  Stated of the second component.                               *)
(***************************************************************************)
C29_ExtraSavingFiniteNonNegative ==
  Has("extraSaving") => (IsFinite(plan.extraSaving) /\ plan.extraSaving >= 0)

(***************************************************************************)
(* C26: in projectToRetirement and projectFullTo100 a lump whose month is  *)
(* greater than monthsToRetire is neither dropped nor applied after        *)
(* retirement: for monthsToRetire >= 1 its full amount, summed with every  *)
(* other lump landing on month monthsToRetire, is credited in the last     *)
(* accumulation update and is part of wealthAtRetire; the updates after    *)
(* retirement credit nothing.                                              *)
(***************************************************************************)
\* the amounts of the lumps dated month n or later (month in halves)
RECURSIVE SumFrom(_, _, _)
SumFrom(lumps, i, n) ==
  IF i > Len(lumps) THEN 0
  ELSE (IF lumps[i].month >= n * MonthDen THEN lumps[i].amount ELSE 0)
       + SumFrom(lumps, i + 1, n)

C26_LateLumpCreditedAtRetirement ==
  (/\ Has("fullProjection")
   /\ monthsToRetire >= 1
   /\ \E i \in 1..Len(lumpSums) : lumpSums[i].month >= (monthsToRetire + 1) * MonthDen) =>
     LET n == monthsToRetire
         credited == SumFrom(lumpSums, 1, n)
     IN /\ plan.wealthAtRetire = plan.accumulation[n + 1].wealth
        /\ plan.accumulation[n + 1].wealth
             = Grow(plan.accumulation[n].wealth, monthlyAccum) + monthlySaving + credited
        /\ plan.W[n + 1] = Grow(plan.W[n], monthlyAccum) + monthlySaving + credited
        /\ \A i \in (n + 1)..(Len(plan.W) - 1) :
              plan.W[i + 1] = Grow(plan.W[i], monthlyRetire) - Withdrawal(monthlySpend)

C26_Witness ==
  /\ Has("fullProjection")
  /\ monthsToRetire = 12
  /\ lumpSums = <<Lump(1, 24), Lump(2, 60)>>
  /\ plan.wealthAtRetire
       = Grow(plan.accumulation[12].wealth, monthlyAccum) + monthlySaving + 2 * LumpAmount

(***************************************************************************)
(* C27: the metric projection and the chart projection agree on the        *)
(* accumulation phase: for every month t with 0 <= t <= monthsToRetire and *)
(* t <= monthsTo100, the chart point equals max(0, projectToRetirement     *)
(* point t); in particular the chart value at the retirement month equals  *)
(* max(0, wealthAtRetire).                                                 *)
(***************************************************************************)
C27_ChartAgreesWithAccumulation ==
  Has("targetWealth") =>
     LET chartData == chartDataOf(plan.fullProjection, plan.targetWealth)
         last == Min(monthsToRetire, monthsTo100)
     IN /\ \A t \in 0..last :
              /\ chartData[t + 1].Meses = t
              /\ plan.accumulation[t + 1].m = t
              /\ chartData[t + 1].Patrimonio = Max(0, plan.accumulation[t + 1].wealth)
        /\ monthsToRetire <= monthsTo100 =>
              chartData[monthsToRetire + 1].Patrimonio = Max(0, plan.wealthAtRetire)

C27_Witness ==
  /\ Has("targetWealth")
  /\ monthsToRetire = 12
  /\ \E t \in 1..12 : plan.accumulation[t].wealth < 0 /\ plan.fullProjection[t].wealth = 0
  /\ plan.wealthAtRetire > 0
  /\ plan.fullProjection[13].wealth = plan.wealthAtRetire

(***************************************************************************)
(* C28: the months-to-goal search and the retirement projection are        *)
(* consistent: for every lump list (any months, also below 1 or beyond     *)
(* monthsToRetire) and a trajectory that never decreases (no negative      *)
(* saving, return or starting wealth), monthsToGoalAtCurrentPlan is at     *)
(* most monthsToRetire exactly when wealthAtRetire >= targetWealth.        *)
(***************************************************************************)
C28_GoalByRetirementIffTargetMet ==
  (Has("monthsToGoalAtCurrentPlan") /\ monthlySaving >= 0 /\ accumRealReturn >= 0
     /\ currentWealth >= 0) =>
     ((plan.monthsToGoalAtCurrentPlan <= monthsToRetire)
        <=> (wealthAtRetireWith(monthlySaving) >= targetWealthOf(monthlySpend, monthlyRetire)))

(***************************************************************************)
(* C30: with monthlySpend >= 0 and a monthly retirement rate above -1,     *)
(* once a charted point at some month t >= monthsToRetire is 0, every      *)
(* later point up to age 100 is 0 (no rebound in retirement).              *)
(***************************************************************************)
C30_NoReboundInRetirement ==
  (Has("fullProjection") /\ monthlySpend >= 0 /\ monthlyRetire > 0 - RateDen) =>
     \A i \in (monthsToRetire + 1)..Len(plan.fullProjection) :
        plan.fullProjection[i].wealth = 0 =>
           \A j \in i..Len(plan.fullProjection) : plan.fullProjection[j].wealth = 0

C30_Witness ==
  /\ Has("fullProjection")
  /\ monthlySpend > 0
  /\ retireRealReturn > 0
  /\ plan.fullProjection[monthsToRetire + 1].wealth > 0
  /\ \E i \in (monthsToRetire + 2)..(Len(plan.fullProjection) - 1) :
        /\ plan.fullProjection[i - 1].wealth > 0
        /\ plan.fullProjection[i].wealth = 0
        /\ plan.fullProjection[i + 1].wealth = 0

(***************************************************************************)
(* App.tsx 424-439 and 501-509 on returns down to -150 %: the chart of the *)
(* main component when a monthly rate is NaN.  Both return fields accept   *)
(* any number (lines 618 and 627).                                         *)
(***************************************************************************)
InitChart ==
  /\ age \in Ages
  /\ retireAge \in RetireAges
  /\ currentWealth \in Wealths
  /\ monthlySaving \in p0_Savings
  /\ monthlySpend \in Spends
  /\ swrPct = 35
  /\ accumRealReturn \in {0 - 1500, 0 - 1000, 30}
  /\ retireRealReturn \in {0 - 1500, 0 - 1000, 30}
  /\ showAdvanced = TRUE
  /\ lumpSums \in {<<>>, <<Lump(1, 24)>>}
  /\ lump = DefaultLump
  /\ pc = "chartData"
  /\ plan = <<>>

ChartData ==
  /\ pc = "chartData"
  /\ LET fullProjection == projectFullTo100(age, currentWealth, monthsToRetire,
                                            monthlySaving, monthlyAccum, monthlyRetire,
                                            monthlySpend, lumpSums)
         targetWealth == targetWealthOf(monthlySpend, monthlyRetire)
     IN plan' = [fullProjection |-> fullProjection,
                 targetWealth |-> targetWealth,
                 chartData |-> chartDataOf(fullProjection, targetWealth)] @@ plan
  /\ pc' = "done"
  /\ UNCHANGED inputs

SpecChart == InitChart /\ [][ChartData]_vars

(***************************************************************************)
(* C25: for every input, an annual rate <= -100 % (whose monthly rate is   *)
(* not a number) included, every wealth and every target value handed to   *)
(* the chart is a finite number.  Stated of the main component, whose      *)
(* chartData copies the projection and the target as they are.             *)
(***************************************************************************)
C25_ChartValuesFinite ==
  Has("chartData") =>
     \A i \in 1..Len(plan.chartData) :
        IsFinite(plan.chartData[i].Patrimonio) /\ IsFinite(plan.chartData[i].Meta)

====
